---- MODULE Spec2Model ----
(***************************************************************************)
(* PhotoArchiveBot (bot.py): per-conversation queues of pending photo      *)
(* batches, matched against archive documents whose file name becomes the  *)
(* caption of the repost.                                                  *)
(*                                                                         *)
(* Handlers are coroutines on one event loop: a handler runs atomically    *)
(* from one transport await to the next.  _handle_photo has no await and   *)
(* is one step; _handle_document is one step up to the repost call and     *)
(* then one step per transport result.                                     *)
(*                                                                         *)
(* Strings that the code only compares for equality (chat, thread, user,   *)
(* media group and file ids) are TLA+ strings, an absent value is None.    *)
(* File names are inspected character by character, so a file name is      *)
(* looked up as a sequence of characters (Chars).  Message ids are         *)
(* integers, each delivered once, in any order.  The      *)
(* clock is datetime.utcnow() in minutes and never runs backwards.         *)
(***************************************************************************)
EXTENDS Integers, Sequences, FiniteSets, TLC

\* ------------------------------------------------------------------ bounds
MaxMsgId == 3
MaxClock == 11

\* ------------------------------------------------------- program constants
None == "None"
PHOTO_TTL == 10
DELETE_ORIGINAL_PHOTO == TRUE
DELETE_ARCHIVE == TRUE

ALLOWED_EXTENSIONS ==
    { <<"z","i","p">>, <<"r","a","r">>, <<"7","z">>, <<"s","t","l">>, <<"o","b","j">>,
      <<"3","m","f">>, <<"s","t","e","p">>, <<"s","t","p">>, <<"3","d","s">>,
      <<"f","b","x">> }

\* ------------------------------------------------------------------ inputs
Keys == {<<"c1", None>>, <<"c1", "t7">>, <<"c2", None>>}
Users == {"u1", "u2"}
Owners == {None, "u1"}
GroupIds == {None, "", "g1", "g2"}
FileNames == {"", "model.stl", "readme.txt", "zip", "STL", "X.7Z", "a.zip.txt"}
TickSteps == {PHOTO_TTL, PHOTO_TTL + 1}

Chars(name) ==
    CASE name = "" -> <<>>
      [] name = "model.stl" -> <<"m","o","d","e","l",".","s","t","l">>
      [] name = "readme.txt" -> <<"r","e","a","d","m","e",".","t","x","t">>
      [] name = "zip" -> <<"z","i","p">>
      [] name = "STL" -> <<"S","T","L">>
      [] name = "X.7Z" -> <<"X",".","7","Z">>
      [] name = "a.zip.txt" -> <<"a",".","z","i","p",".","t","x","t">>

\* ----------------------------------------------------------------- helpers
SetMax(S) == CHOOSE x \in S : \A y \in S : y <= x

Last(s) == s[Len(s)]

UpperCase == <<"A","B","C","D","E","F","G","H","I","J","K","L","M",
               "N","O","P","Q","R","S","T","U","V","W","X","Y","Z">>
LowerCase == <<"a","b","c","d","e","f","g","h","i","j","k","l","m",
               "n","o","p","q","r","s","t","u","v","w","x","y","z">>

\* str.lower() on one character
LowerChar(c) ==
    IF \E i \in 1..26 : UpperCase[i] = c
    THEN LowerCase[CHOOSE i \in 1..26 : UpperCase[i] = c]
    ELSE c

\* str.lower()
Lower(cs) == [i \in 1..Len(cs) |-> LowerChar(cs[i])]

\* cs.split(".")[1]: the part between the first "." and the next
SplitSecond(cs) ==
    LET dots == {i \in 1..Len(cs) : cs[i] = "."}
        first == CHOOSE i \in dots : \A j \in dots : i <= j
        rest == {i \in dots : i > first}
    IN IF dots = {} THEN cs
       ELSE SubSeq(cs, first + 1,
                   IF rest = {} THEN Len(cs)
                   ELSE (CHOOSE i \in rest : \A j \in rest : i <= j) - 1)

\* cs.rsplit(".", 1)[-1]: the part after the last ".", the whole of cs without one
RSplitLast(cs) ==
    LET dots == {i \in 1..Len(cs) : cs[i] = "."}
    IN IF dots = {} THEN cs ELSE SubSeq(cs, SetMax(dots) + 1, Len(cs))

\* ext = filename.rsplit(".", 1)[-1].lower()
Ext(name) == Lower(RSplitLast(Chars(name)))

\* dict with key k set to v / with key k removed
Put(d, k, v) == [x \in (DOMAIN d) \cup {k} |-> IF x = k THEN v ELSE d[x]]
Pop(d, k) == [x \in (DOMAIN d) \ {k} |-> d[x]]

\* ------------------------------------------------------------------- state
VARIABLES
    groups,     \* self.groups: registered key -> list of PhotoGroup
    clock,      \* datetime.utcnow(), minutes
    OWNER_ID,   \* the configured owner, None when unset
    tasks,      \* document handlers suspended on a transport await
    log,        \* transport calls in issue order, each with its result
    usedIds,    \* the message ids delivered so far
    ev,         \* the message most recently dispatched to a handler
    ret,        \* where that handler's first synchronous stretch ended
    run         \* per key, the current run of same-media-group photo messages

vars == <<groups, clock, OWNER_ID, tasks, log, usedIds, ev, ret, run>>

NoRun == [n |-> 0]
NoEvent == [type |-> "none"]

PhotoGroup(gid, fids, mids, at) ==
    [media_group_id |-> gid, file_ids |-> fids, message_ids |-> mids, created_at |-> at]

\* _key without the thread: one queue per chat
KeyChatOnly(m) == <<m.chat, None>>

\* _key
Key(m) == <<m.chat, m.thread>>

\* _skip_user without its first test: with no owner set nobody is the owner
SkipUserNoOwnerTest(owner, m) ==
    IF m.from_user = None THEN TRUE
    ELSE m.from_user # owner

\* _skip_user
SkipUser(owner, m) ==
    IF owner = None THEN FALSE
    ELSE IF m.from_user = None THEN TRUE
    ELSE m.from_user # owner

\* an if for the while: at most one expired batch is dropped
DropExpiredOnce(queue, now) ==
    IF queue # <<>> /\ (now - queue[1].created_at) > PHOTO_TTL
    THEN Tail(queue)
    ELSE queue

\* >= for > in the loop's test: a batch is dropped at the age of the TTL
RECURSIVE DropExpiredAtTtl(_, _)
DropExpiredAtTtl(queue, now) ==
    IF queue # <<>> /\ (now - queue[1].created_at) >= PHOTO_TTL
    THEN DropExpiredAtTtl(Tail(queue), now)
    ELSE queue

\* the while loop of _cleanup
RECURSIVE DropExpired(_, _)
DropExpired(queue, now) ==
    IF queue # <<>> /\ (now - queue[1].created_at) > PHOTO_TTL
    THEN DropExpired(Tail(queue), now)
    ELSE queue

\* _cleanup
Cleanup(g, key, now) ==
    IF key \notin DOMAIN g \/ g[key] = <<>> THEN g
    ELSE LET queue == DropExpired(g[key], now)
         IN IF queue = <<>> THEN Pop(g, key) ELSE Put(g, key, queue)

\* _queue
Queue(g, key) == IF key \notin DOMAIN g THEN Put(g, key, <<>>) ELSE g

\* the test without "media_group_id and": absent group ids compare equal
ExtendsUngrouped(queue, media_group_id) ==
    /\ queue # <<>>
    /\ Last(queue).media_group_id = media_group_id

\* the branch of _handle_photo that extends the tail batch
Extends(queue, media_group_id) ==
    /\ media_group_id # None /\ media_group_id # ""
    /\ queue # <<>>
    /\ Last(queue).media_group_id = media_group_id

\* insert(0, ...) for append(...): the newest photo goes first
PrependPhoto(queue, m, now) ==
    IF Extends(queue, m.media_group_id)
    THEN [queue EXCEPT ![Len(queue)] =
            [@ EXCEPT !.file_ids = <<m.file_id>> \o @,
                      !.message_ids = <<m.mid>> \o @]]
    ELSE Append(queue, PhotoGroup(m.media_group_id, <<m.file_id>>, <<m.mid>>, now))

\* created_at set again when the tail batch is extended
AppendPhotoRefresh(queue, m, now) ==
    IF Extends(queue, m.media_group_id)
    THEN [queue EXCEPT ![Len(queue)] =
            [@ EXCEPT !.file_ids = Append(@, m.file_id),
                      !.message_ids = Append(@, m.mid),
                      !.created_at = now]]
    ELSE Append(queue, PhotoGroup(m.media_group_id, <<m.file_id>>, <<m.mid>>, now))

\* queue.insert(0, ...) for queue.append(...): a new batch goes to the front
AppendPhotoFront(queue, m, now) ==
    IF Extends(queue, m.media_group_id)
    THEN [queue EXCEPT ![Len(queue)] =
            [@ EXCEPT !.file_ids = Append(@, m.file_id),
                      !.message_ids = Append(@, m.mid)]]
    ELSE <<PhotoGroup(m.media_group_id, <<m.file_id>>, <<m.mid>>, now)>> \o queue

\* lines 88-100 of _handle_photo
AppendPhoto(queue, m, now) ==
    IF Extends(queue, m.media_group_id)
    THEN [queue EXCEPT ![Len(queue)] =
            [@ EXCEPT !.file_ids = Append(@, m.file_id),
                      !.message_ids = Append(@, m.mid)]]
    ELSE Append(queue, PhotoGroup(m.media_group_id, <<m.file_id>>, <<m.mid>>, now))

\* PhotoArchiveBot.__init__: no queue, no handler running
Constructed ==
    /\ groups = <<>>
    /\ clock = 0
    /\ tasks = {}
    /\ log = <<>>
    /\ usedIds = {}
    /\ ev = NoEvent
    /\ ret = "none"
    /\ run = [k \in Keys |-> NoRun]

\* line 19: OWNER_ID = None
Init == Constructed /\ OWNER_ID = None

\* the clock advances between handler steps
Tick ==
    /\ \E d \in TickSteps : clock + d <= MaxClock /\ clock' = clock + d
    /\ UNCHANGED <<groups, OWNER_ID, tasks, log, usedIds, ev, ret, run>>

\* a message id is delivered once
Fresh(mid) == mid \notin usedIds

\* message.photo[-1].file_id: every photo message carries its own file
FileIdOf(mid) == 100 + mid

Photos(keys, users, gids) ==
    { [type |-> "photo", chat |-> k[1], thread |-> k[2], mid |-> i, from_user |-> u,
       media_group_id |-> g, file_id |-> FileIdOf(i)] :
        k \in keys, i \in 1..MaxMsgId, u \in users, g \in gids }

Documents(keys, users, names) ==
    { [type |-> "document", chat |-> k[1], thread |-> k[2], mid |-> i, from_user |-> u,
       file_name |-> n] :
        k \in keys, i \in 1..MaxMsgId, u \in users, n \in names }

\* run bookkeeping: the photo messages of one media group dispatched back to back
RunAfterPhoto(m, skipped) ==
    LET k == Key(m)
        same == run[k].n > 0 /\ run[k].gid = m.media_group_id
    IN IF skipped \/ m.media_group_id \in {None, ""}
       THEN [run EXCEPT ![k] = NoRun]
       ELSE IF same
       THEN [run EXCEPT ![k] = [@ EXCEPT !.n = @ + 1,
                                         !.file_ids = Append(@, m.file_id),
                                         !.message_ids = Append(@, m.mid)]]
       ELSE [run EXCEPT ![k] =
               [n |-> 1, gid |-> m.media_group_id, file_ids |-> <<m.file_id>>,
                message_ids |-> <<m.mid>>, at |-> clock,
                fresh |-> ~(/\ k \in DOMAIN groups /\ groups[k] # <<>>
                            /\ Last(groups[k]).media_group_id = m.media_group_id)]]

\* _handle_photo
HandlePhoto(m) ==
    /\ Fresh(m.mid)
    /\ usedIds' = usedIds \cup {m.mid}
    /\ ev' = m
    /\ run' = RunAfterPhoto(m, SkipUser(OWNER_ID, m))
    /\ IF SkipUser(OWNER_ID, m)
       THEN /\ ret' = "skip_user"
            /\ UNCHANGED groups
       ELSE LET key == Key(m)
                g1 == Queue(groups, key)
                g2 == Put(g1, key, AppendPhoto(g1[key], m, clock))
            IN /\ groups' = Cleanup(g2, key, clock)
               /\ ret' = "queued"
    /\ UNCHANGED <<clock, OWNER_ID, tasks, log>>

\* queue[-1] for queue[0]: the newest batch
Newest(queue) == queue[Len(queue)]

\* line 127: group = queue[0]
Front(queue) == queue[1]

\* the dequeue left out: the batch stays at the front
PopFrontSkipped(queue) == queue

\* line 131: queue.pop(0)
PopFront(queue) == Tail(queue)

\* the ordering test made on the first message id of the batch instead of the last
NotBeforeFirst(group, mid) ==
    group.message_ids # <<>> /\ group.message_ids[1] >= mid

\* the ordering test with the comparison turned round
NotBeforeInverted(group, mid) ==
    group.message_ids # <<>> /\ Last(group.message_ids) <= mid

\* line 128: the front batch does not precede the document
NotBefore(group, mid) ==
    group.message_ids # <<>> /\ Last(group.message_ids) >= mid

\* the caption set on every item of the album
RepostCallCaptionAll(m, group) ==
    IF Len(group.file_ids) = 1
    THEN [op |-> "send_photo", chat_id |-> m.chat, photo |-> group.file_ids[1],
          caption |-> m.file_name, message_thread_id |-> m.thread]
    ELSE [op |-> "send_media_group", chat_id |-> m.chat,
          media |-> [i \in 1..Len(group.file_ids) |->
                        [media |-> group.file_ids[i], caption |-> m.file_name]],
          message_thread_id |-> m.thread]

\* lines 133-149: the repost call
RepostCall(m, group) ==
    IF Len(group.file_ids) = 1
    THEN [op |-> "send_photo", chat_id |-> m.chat, photo |-> group.file_ids[1],
          caption |-> m.file_name, message_thread_id |-> m.thread]
    ELSE [op |-> "send_media_group", chat_id |-> m.chat,
          media |-> [i \in 1..Len(group.file_ids) |->
                        [media |-> group.file_ids[i],
                         caption |-> IF i = 1 THEN m.file_name ELSE None]],
          message_thread_id |-> m.thread]

\* message.message_id for mid at line 154: every deletion is the document's
DeleteCallDocument(m, mid) ==
    [op |-> "delete_message", chat_id |-> m.chat, message_id |-> m.mid]

\* lines 154 and 160: a delete call
DeleteCall(m, mid) == [op |-> "delete_message", chat_id |-> m.chat, message_id |-> mid]

\* a call as the transport sees it, for the message m whose handler issued it
Issued(call, m) == [call |-> call, by |-> m.mid, result |-> "pending"]

\* where the synchronous stretch of _handle_document up to line 131 ends
DocReturn(g, owner, m, now) ==
    IF SkipUser(owner, m) THEN "skip_user"
    ELSE IF m.file_name = None \/ m.file_name = "" THEN "no_name"
    ELSE IF Ext(m.file_name) \notin ALLOWED_EXTENSIONS THEN "bad_ext"
    ELSE IF Key(m) \notin DOMAIN g \/ g[Key(m)] = <<>> THEN "no_queue"
    ELSE LET g1 == Cleanup(g, Key(m), now)
         IN IF Key(m) \notin DOMAIN g1 \/ g1[Key(m)] = <<>> THEN "expired"
            ELSE IF NotBefore(Front(g1[Key(m)]), m.mid) THEN "not_before"
            ELSE "matched"

\* _handle_document up to its first await
HandleDocument(m) ==
    /\ Fresh(m.mid)
    /\ usedIds' = usedIds \cup {m.mid}
    /\ ev' = m
    /\ run' = [run EXCEPT ![Key(m)] = NoRun]
    /\ ret' = DocReturn(groups, OWNER_ID, m, clock)
    /\ LET key == Key(m)
           g1 == Cleanup(groups, key, clock)
       IN CASE ret' \in {"skip_user", "no_name", "bad_ext", "no_queue"} ->
                 UNCHANGED <<groups, tasks, log>>
            [] ret' \in {"expired", "not_before"} ->
                 /\ groups' = g1
                 /\ UNCHANGED <<tasks, log>>
            [] ret' = "matched" ->
                 LET group == Front(g1[key])
                 IN /\ groups' = Put(g1, key, PopFront(g1[key]))
                    /\ log' = Append(log, Issued(RepostCall(m, group), m))
                    /\ tasks' = tasks \cup
                         {[msg |-> m, group |-> group, pc |-> "send", i |-> 0,
                           call |-> Len(log) + 1]}
    /\ UNCHANGED <<clock, OWNER_ID>>

\* lines 167-168 without "and not self.groups[key]": the key is removed
\* whatever its queue holds
FinishUnconditional(t) ==
    /\ groups' = IF Key(t.msg) \in DOMAIN groups
                 THEN Pop(groups, Key(t.msg)) ELSE groups
    /\ tasks' = tasks \ {t}

\* lines 167-168, then the handler is over
Finish(t) ==
    /\ groups' = IF Key(t.msg) \in DOMAIN groups /\ groups[Key(t.msg)] = <<>>
                 THEN Pop(groups, Key(t.msg)) ELSE groups
    /\ tasks' = tasks \ {t}

\* the handler runs on from a returned call to its next await: the deletion of
\* source message number i (line 154), else of the document (line 160), else the end
Proceed(t, i, done) ==
    IF DELETE_ORIGINAL_PHOTO /\ i <= Len(t.group.message_ids)
    THEN /\ log' = Append(done, Issued(DeleteCall(t.msg, t.group.message_ids[i]), t.msg))
         /\ tasks' = (tasks \ {t}) \cup
              {[t EXCEPT !.pc = "delete_photo", !.i = i, !.call = Len(done) + 1]}
         /\ UNCHANGED groups
    ELSE IF DELETE_ARCHIVE /\ t.pc # "delete_archive"
    THEN /\ log' = Append(done, Issued(DeleteCall(t.msg, t.msg.mid), t.msg))
         /\ tasks' = (tasks \ {t}) \cup
              {[t EXCEPT !.pc = "delete_archive", !.call = Len(done) + 1]}
         /\ UNCHANGED groups
    ELSE /\ log' = done
         /\ Finish(t)

Returned(t, result) == [log EXCEPT ![t.call].result = result]

\* send_photo / send_media_group returns
SendOk(t) ==
    /\ t.pc = "send"
    /\ Proceed(t, 1, Returned(t, "ok"))
    /\ UNCHANGED <<clock, OWNER_ID, usedIds, ev, ret, run>>

\* the repost guarded like the deletions: its exception is swallowed
SendFailsSwallowed(t) ==
    /\ t.pc = "send"
    /\ Proceed(t, 1, Returned(t, "failed"))
    /\ UNCHANGED <<clock, OWNER_ID, usedIds, ev, ret, run>>

\* send_photo / send_media_group raises: the handler ends with the exception
SendFails(t) ==
    /\ t.pc = "send"
    /\ log' = Returned(t, "failed")
    /\ tasks' = tasks \ {t}
    /\ UNCHANGED <<groups, clock, OWNER_ID, usedIds, ev, ret, run>>

\* the deletions without try/except: a failed one ends the handler
DeleteReturnsOrAborts(t, result) ==
    /\ t.pc \in {"delete_photo", "delete_archive"}
    /\ IF result = "failed"
       THEN /\ log' = Returned(t, result)
            /\ tasks' = tasks \ {t}
            /\ UNCHANGED groups
       ELSE Proceed(t, IF t.pc = "delete_photo" THEN t.i + 1
                       ELSE Len(t.group.message_ids) + 1,
                    Returned(t, result))
    /\ UNCHANGED <<clock, OWNER_ID, usedIds, ev, ret, run>>

\* delete_message returns or raises (lines 153-156, 159-165: the exception is swallowed)
DeleteReturns(t, result) ==
    /\ t.pc \in {"delete_photo", "delete_archive"}
    /\ Proceed(t, IF t.pc = "delete_photo" THEN t.i + 1 ELSE Len(t.group.message_ids) + 1,
               Returned(t, result))
    /\ UNCHANGED <<clock, OWNER_ID, usedIds, ev, ret, run>>

\* a suspended document handler is resumed by its transport call's result
Resume ==
    \/ \E t \in tasks : SendOk(t)
    \/ \E t \in tasks : SendFails(t)
    \/ \E t \in tasks, r \in {"ok", "failed"} : DeleteReturns(t, r)

\* One conversation, every kind of media group, a matching and a non-matching
\* file name; the owner unset, as line 19 sets it.
PhotoMessages == Photos({<<"c1", None>>}, {"u1"}, GroupIds)
DocMessages == Documents({<<"c1", None>>}, {"u1"}, {"model.stl", "readme.txt"})

Next ==
    \/ Tick
    \/ \E m \in PhotoMessages : HandlePhoto(m)
    \/ \E m \in DocMessages : HandleDocument(m)
    \/ Resume

Spec == Init /\ [][Next]_vars

\* Every file name, on one conversation with ungrouped photos.
NamePhotoMessages == Photos({<<"c1", None>>}, {"u1"}, {None})
NameDocMessages == Documents({<<"c1", None>>}, {"u1"}, FileNames \cup {None})

NextNames ==
    \/ Tick
    \/ \E m \in NamePhotoMessages : HandlePhoto(m)
    \/ \E m \in NameDocMessages : HandleDocument(m)
    \/ Resume

SpecNames == Init /\ [][NextNames]_vars

\* Every sender under every owner setting.
OwnerPhotoMessages == Photos({<<"c1", None>>}, Users \cup {None}, {None, "g1"})
OwnerDocMessages == Documents({<<"c1", None>>}, Users \cup {None}, {"model.stl"})

InitOwner == Constructed /\ OWNER_ID \in Owners

NextOwner ==
    \/ Tick
    \/ \E m \in OwnerPhotoMessages : HandlePhoto(m)
    \/ \E m \in OwnerDocMessages : HandleDocument(m)
    \/ Resume

SpecOwner == InitOwner /\ [][NextOwner]_vars

\* Several conversations and sub-topics.
KeyPhotoMessages == Photos(Keys, {"u1"}, {"g1"})
KeyDocMessages == Documents(Keys, {"u1"}, {"model.stl"})

NextKeys ==
    \/ Tick
    \/ \E m \in KeyPhotoMessages : HandlePhoto(m)
    \/ \E m \in KeyDocMessages : HandleDocument(m)
    \/ Resume

SpecKeys == Init /\ [][NextKeys]_vars

\* One conversation whose messages are delivered in the order of their ids and
\* at one clock reading, two more of them than elsewhere: two media groups
\* that may alternate, and documents whose handlers run concurrently.
OrderedPhotoMessages ==
    { [type |-> "photo", chat |-> "c1", thread |-> None, mid |-> i, from_user |-> "u1",
       media_group_id |-> g, file_id |-> FileIdOf(i)] :
        i \in 1..(MaxMsgId + 2), g \in {"g1", "g2"} }
OrderedDocMessages ==
    { [type |-> "document", chat |-> "c1", thread |-> None, mid |-> i, from_user |-> "u1",
       file_name |-> "model.stl"] : i \in 1..(MaxMsgId + 2) }

\* the next message of the conversation
InOrder(m) == m.mid = Cardinality(usedIds) + 1

NextOrdered ==
    \/ \E m \in OrderedPhotoMessages : InOrder(m) /\ HandlePhoto(m)
    \/ \E m \in OrderedDocMessages : InOrder(m) /\ HandleDocument(m)
    \/ Resume

SpecOrdered == Init /\ [][NextOrdered]_vars

\* ------------------------------------------------------------ properties
\* The step dispatches a message to its handler (message ids are never reused).
Dispatched(type) == ev' # ev /\ ev'.type = type

\* The queue registered under key k, empty when none is.
QueueOf(g, k) == IF k \in DOMAIN g THEN g[k] ELSE <<>>

Expired(batch, now) == now - batch.created_at > PHOTO_TTL

\* The batches of a queue that have not outlived the TTL at time now.
Surviving(queue, now) == SelectSeq(queue, LAMBDA b : ~Expired(b, now))

\* The file names of the model that end in "." and an extension of the allow-set.
WithAllowedExtension == {"model.stl", "X.7Z"}

Authorized(m) == OWNER_ID = None \/ m.from_user = OWNER_ID

\* No transport call is issued and no handler is left suspended by the step.
NoAction == log' = log /\ tasks' = tasks

\* C1 (as stated): a document from an authorized sender, with an allowed
\* extension, whose message id is <= the last source message id of the front
\* batch of its key's queue emits no action and leaves that queue as it was.
C1_AsStated ==
    [][ ( /\ Dispatched("document")
          /\ Authorized(ev')
          /\ ev'.file_name \in WithAllowedExtension
          /\ QueueOf(groups, Key(ev')) # <<>>
          /\ ev'.mid <= Last(QueueOf(groups, Key(ev'))[1].message_ids) )
        => ( /\ NoAction
             /\ QueueOf(groups', Key(ev')) = QueueOf(groups, Key(ev')) ) ]_vars

\* C1 (amended): when the message id of such a document is <= the last source
\* message id of the front batch that is left once the expired batches are
\* evicted, handling it emits no Repost and no Delete, and leaves in the key's
\* queue exactly the batches that have not expired, in order and unchanged.
C1_NotBeforeNoMatch ==
    [][ ( /\ Dispatched("document")
          /\ Authorized(ev')
          /\ ev'.file_name \in WithAllowedExtension
          /\ Surviving(QueueOf(groups, Key(ev')), clock) # <<>>
          /\ ev'.mid <= Last(Surviving(QueueOf(groups, Key(ev')), clock)[1].message_ids) )
        => ( /\ NoAction
             /\ Key(ev') \in DOMAIN groups'
             /\ groups'[Key(ev')] = Surviving(QueueOf(groups, Key(ev')), clock) ) ]_vars

\* A document with an allowed extension was turned away by a pending batch
\* whose last message id is not below the document's.
C1_Witness ==
    /\ ev.type = "document"
    /\ ev.file_name \in WithAllowedExtension
    /\ ret = "not_before"
    /\ QueueOf(groups, Key(ev)) # <<>>
    /\ Last(QueueOf(groups, Key(ev))[1].message_ids) >= ev.mid
    /\ log = <<>>

\* C2 (as stated): whenever a document matches a batch, its message id is
\* strictly greater than every source message id of that batch.
C2_AsStated ==
    \A t \in tasks : \A i \in 1..Len(t.group.message_ids) :
        t.msg.mid > t.group.message_ids[i]

Increasing(ids) == \A i, j \in 1..Len(ids) : i < j => ids[i] < ids[j]

\* C2 (amended): whenever a document matches a batch, its message id is
\* strictly greater than the last source message id of that batch, and so
\* greater than every one of them when the batch's message ids are increasing.
C2_AfterLastPhoto ==
    \A t \in tasks :
        /\ t.msg.mid > Last(t.group.message_ids)
        /\ Increasing(t.group.message_ids) =>
              \A i \in 1..Len(t.group.message_ids) : t.msg.mid > t.group.message_ids[i]

\* A document has matched an album whose photos all precede it.
C2_Witness ==
    \E t \in tasks :
        /\ t.pc = "send"
        /\ Len(t.group.message_ids) >= 2
        /\ \A i \in 1..Len(t.group.message_ids) : t.msg.mid > t.group.message_ids[i]

\* The message ids a transport call names as sources: none for a repost.
Deleted(entry) ==
    IF entry.call.op = "delete_message" THEN {entry.call.message_id} ELSE {}

\* The file ids a transport call reposts.
Reposted(entry) ==
    CASE entry.call.op = "send_photo" -> {entry.call.photo}
      [] entry.call.op = "send_media_group" ->
            {entry.call.media[i].media : i \in 1..Len(entry.call.media)}
      [] OTHER -> {}

Elems(seq) == {seq[i] : i \in 1..Len(seq)}

\* The step issues no call for batch b, leaves no handler holding it, and
\* removes it from the queue of key k.
EvictedSilently(b, k) ==
    /\ \A i \in Len(log) + 1 .. Len(log') :
          /\ Reposted(log'[i]) \cap Elems(b.file_ids) = {}
          /\ Deleted(log'[i]) \cap Elems(b.message_ids) = {}
    /\ \A t \in tasks' \ tasks : t.group # b
    /\ \A i \in 1..Len(QueueOf(groups', k)) :
          Elems(QueueOf(groups', k)[i].message_ids) \cap Elems(b.message_ids) = {}

\* C3 (as stated): a document that arrives when a batch of its key is older
\* than the TTL never matches that batch: no Repost and no Delete is emitted
\* for it, and it is removed from the queue.
C3_AsStated ==
    [][ Dispatched("document") =>
          \A i \in 1..Len(QueueOf(groups, Key(ev'))) :
              Expired(QueueOf(groups, Key(ev'))[i], clock) =>
                  EvictedSilently(QueueOf(groups, Key(ev'))[i], Key(ev')) ]_vars

\* C3 (amended): the same, of a document from an authorized sender whose file
\* name has an allowed extension; a document turned away before eviction
\* (unauthorized, no file name, extension not allowed) emits nothing and
\* leaves the expired batch queued.
C3_ExpiredNeverMatched ==
    [][ Dispatched("document") =>
          \A i \in 1..Len(QueueOf(groups, Key(ev'))) :
              Expired(QueueOf(groups, Key(ev'))[i], clock) =>
                  IF Authorized(ev') /\ ev'.file_name \in WithAllowedExtension
                  THEN EvictedSilently(QueueOf(groups, Key(ev'))[i], Key(ev'))
                  ELSE NoAction /\ groups' = groups ]_vars

\* A photo queued at 0 and a document with an allowed extension handled more
\* than the TTL later: the queue is gone and nothing was sent.
C3_Witness ==
    /\ ev.type = "document"
    /\ ev.file_name \in WithAllowedExtension
    /\ ret = "expired"
    /\ clock = PHOTO_TTL + 1
    /\ Key(ev) \notin DOMAIN groups
    /\ usedIds # {ev.mid}
    /\ log = <<>>

\* The file names of the model that have a "." and, after the last one, a
\* word that is not in the allow-set whatever its case.
WithOtherExtension == {"readme.txt", "a.zip.txt"}

\* C4: a document whose extension (the part of the file name after the last
\* ".", case-folded) is not in the allow-set matches nothing, whatever is
\* pending: no action is emitted and every pending batch stays queued.
C4_OtherExtensionNoMatch ==
    [][ (Dispatched("document") /\ ev'.file_name \in WithOtherExtension)
        => (NoAction /\ groups' = groups) ]_vars

\* "a.zip.txt" was handled while a batch that precedes it was pending, and
\* the batch is still queued.
C4_Witness ==
    /\ ev.type = "document"
    /\ ev.file_name = "a.zip.txt"
    /\ ret = "bad_ext"
    /\ QueueOf(groups, Key(ev)) # <<>>
    /\ Last(QueueOf(groups, Key(ev))[1].message_ids) < ev.mid
    /\ ~Expired(QueueOf(groups, Key(ev))[1], clock)

\* The file names of the model without a ".".
WithoutExtension == {"zip", "STL"}

\* C5: a document whose file name has no "." is turned away, also when the
\* name is itself an allowed extension word: no batch is dequeued and no
\* action is emitted.
C5_NoExtensionNoMatch ==
    [][ (Dispatched("document") /\ ev'.file_name \in WithoutExtension)
        => (NoAction /\ groups' = groups) ]_vars

\* C6: handling one document removes at most one batch by matching, and the
\* batch it matches is the oldest one that has not expired; when that batch
\* is not eligible, nothing behind it is matched and the unexpired batches all
\* stay queued.
C6_FrontOnly ==
    [][ Dispatched("document") =>
          LET alive == Surviving(QueueOf(groups, Key(ev')), clock)
              matched == tasks' \ tasks
          IN /\ Cardinality(matched) <= 1
             /\ \A t \in tasks : t \in tasks'
             /\ \A t \in matched :
                   /\ alive # <<>>
                   /\ t.group = alive[1]
                   /\ QueueOf(groups', Key(ev')) = Tail(alive)
             /\ matched = {} /\ Authorized(ev') /\ ev'.file_name \in WithAllowedExtension
                   => QueueOf(groups', Key(ev')) = alive ]_vars

\* The front batch is not eligible for the document just handled, the batch
\* behind it would be, and both are still queued.
C6_Witness ==
    /\ ev.type = "document"
    /\ ret = "not_before"
    /\ Len(QueueOf(groups, Key(ev))) = 2
    /\ Last(QueueOf(groups, Key(ev))[1].message_ids) > ev.mid
    /\ Last(QueueOf(groups, Key(ev))[2].message_ids) < ev.mid
    /\ tasks = {}

\* The tail batch of key k holds exactly the photos of the key's current run.
RunIsTail(k) ==
    /\ QueueOf(groups, k) # <<>>
    /\ Len(Last(groups[k]).file_ids) = run[k].n
    /\ Last(groups[k]).file_ids = run[k].file_ids
    /\ Last(groups[k]).message_ids = run[k].message_ids

\* C7 (as stated): after n >= 1 authorized photo messages of one non-empty
\* media group, handled back to back for a key, the key's tail batch has n
\* photos and their message ids in arrival order.
C7_AsStated == \A k \in Keys : run[k].n >= 1 => RunIsTail(k)

\* C7 (amended): the same, of a run whose first message starts a new batch
\* (the queue is empty or its tail has another group id) and whose last
\* message is handled no more than the TTL after the first; a later message
\* of the run is appended to the expired batch and evicted with it.
C7_RunIsOneBatch ==
    \A k \in Keys :
        (run[k].n >= 1 /\ run[k].fresh /\ clock - run[k].at <= PHOTO_TTL) => RunIsTail(k)

\* Three photos of one media group, the last one handled exactly the TTL
\* after the first and with the lowest message id, are one batch.
C7_Witness ==
    \E k \in Keys :
        /\ run[k].n = 3
        /\ run[k].fresh
        /\ clock - run[k].at = PHOTO_TTL
        /\ ev.type = "photo" /\ ev.mid = 1
        /\ RunIsTail(k)

\* C8: an authorized photo whose group id is absent, empty or not the tail
\* batch's becomes a new one-photo batch at the tail, and the batches before
\* it are batches of the old queue, unchanged and in order (the older ones may
\* have been evicted); two photos without group id are two batches.
C8_NewBatch ==
    [][ ( /\ Dispatched("photo")
          /\ Authorized(ev')
          /\ \/ ev'.media_group_id \in {None, ""}
             \/ QueueOf(groups, Key(ev')) = <<>>
             \/ Last(QueueOf(groups, Key(ev'))).media_group_id # ev'.media_group_id )
        => LET old == QueueOf(groups, Key(ev'))
               new == QueueOf(groups', Key(ev'))
           IN /\ new # <<>>
              /\ Last(new) = PhotoGroup(ev'.media_group_id, <<ev'.file_id>>, <<ev'.mid>>, clock)
              /\ \E n \in 0..Len(old) :
                    SubSeq(new, 1, Len(new) - 1) = SubSeq(old, n + 1, Len(old))
              /\ Surviving(old, clock) # <<>> => Len(new) >= 2 ]_vars

\* Two photos without group id, handled one after the other, are the last
\* two batches of the queue.
C8_Witness ==
    /\ ev.type = "photo"
    /\ ev.media_group_id = None
    /\ Len(QueueOf(groups, Key(ev))) >= 2
    /\ LET q == groups[Key(ev)]
       IN /\ q[Len(q)].message_ids = <<ev.mid>>
          /\ q[Len(q) - 1].media_group_id = None
          /\ Len(q[Len(q) - 1].message_ids) = 1

\* C9: with an owner configured, a photo or document whose sender is absent
\* or is not the owner changes no queue and emits no action; with no owner
\* configured every message is processed, sender or not: a photo changes its
\* key's queue and, unless the queue is evicted, is in the tail batch, and a
\* document that follows an unexpired front batch reposts it.
C9_OwnerOnly ==
    [][ (Dispatched("photo") \/ Dispatched("document")) =>
          IF OWNER_ID # None
          THEN (ev'.from_user = None \/ ev'.from_user # OWNER_ID)
                  => (NoAction /\ groups' = groups)
          ELSE IF ev'.type = "photo"
          THEN /\ QueueOf(groups', Key(ev')) # QueueOf(groups, Key(ev'))
               /\ QueueOf(groups', Key(ev')) # <<>>
                     => ev'.mid \in Elems(Last(QueueOf(groups', Key(ev'))).message_ids)
          ELSE LET alive == Surviving(QueueOf(groups, Key(ev')), clock)
               IN (alive # <<>> /\ Last(alive[1].message_ids) < ev'.mid)
                    => Len(log') = Len(log) + 1 ]_vars

\* The owner is u1 and a document of u2 that follows the pending batch was
\* handled: the batch is still queued and nothing was sent.
C9_Witness ==
    /\ OWNER_ID = "u1"
    /\ ev.type = "document"
    /\ ev.from_user = "u2"
    /\ QueueOf(groups, Key(ev)) # <<>>
    /\ Last(QueueOf(groups, Key(ev))[1].message_ids) < ev.mid
    /\ ~Expired(QueueOf(groups, Key(ev))[1], clock)
    /\ log = <<>>

\* C10: the repost emitted on a match carries the file ids of the dequeued
\* batch in their order, to the chat and thread of the document: one photo is
\* sent as a single photo captioned with the file name, two or more as one
\* album in which the first item alone carries the file name as caption.
C10_Repost ==
    [][ (Dispatched("document") /\ tasks' # tasks) =>
          LET batch == Surviving(QueueOf(groups, Key(ev')), clock)[1]
              call == log'[Len(log')].call
          IN /\ Len(log') = Len(log) + 1
             /\ call.chat_id = ev'.chat
             /\ call.message_thread_id = ev'.thread
             /\ IF Len(batch.file_ids) = 1
                THEN /\ call.op = "send_photo"
                     /\ call.photo = batch.file_ids[1]
                     /\ call.caption = ev'.file_name
                ELSE /\ call.op = "send_media_group"
                     /\ Len(call.media) = Len(batch.file_ids)
                     /\ \A i \in 1..Len(call.media) :
                           /\ call.media[i].media = batch.file_ids[i]
                           /\ (call.media[i].caption = ev'.file_name) <=> (i = 1)
                           /\ i > 1 => call.media[i].caption = None ]_vars

\* An album of two photos, delivered out of message-id order, was reposted to
\* thread t7 of chat c1.
C10_Witness ==
    \E i \in 1..Len(log) :
        /\ log[i].call.op = "send_media_group"
        /\ log[i].call.message_thread_id = "t7"
        /\ Len(log[i].call.media) = 2
        /\ log[i].call.media[1].media > log[i].call.media[2].media

IsRepost(entry) == entry.call.op \in {"send_photo", "send_media_group"}
IsDelete(entry) == entry.call.op = "delete_message"

\* C11: within one match no delete is issued before the repost of that match
\* has returned successfully, and none at all when the repost failed.
C11_RepostBeforeDelete ==
    \A j \in 1..Len(log) :
        IsDelete(log[j]) =>
            /\ \E i \in 1..(j - 1) :
                  /\ log[i].by = log[j].by
                  /\ IsRepost(log[i])
                  /\ log[i].result = "ok"
            /\ \A i \in 1..Len(log) :
                  (log[i].by = log[j].by /\ IsRepost(log[i])) => log[i].result = "ok"

\* One repost failed and its handler is over, another succeeded and its
\* handler has gone on to the deletions.
C11_Witness ==
    /\ \E i \in 1..Len(log) : IsRepost(log[i]) /\ log[i].result = "failed"
    /\ \E j \in 1..Len(log) : IsDelete(log[j])

\* The calls of the log issued for document d, in issue order.
CallsBy(l, d) == SelectSeq(l, LAMBDA e : e.by = d)

\* The deletions a match owes: every source message of the batch in order,
\* then the document.
DeletionsOwed(t) ==
    [i \in 1..(Len(t.group.message_ids) + 1) |->
        IF i <= Len(t.group.message_ids) THEN t.group.message_ids[i] ELSE t.msg.mid]

\* C12: once the repost has succeeded, a handler that ends has attempted the
\* deletion of every source message of its batch, in order, and then of the
\* document, whichever of them failed; no failed deletion ends it early, and
\* it ends at its last statement (an emptied queue is deregistered).
C12_AllDeletionsAttempted ==
    [][ \A t \in tasks :
          ( /\ \A u \in tasks' : u.msg # t.msg
            /\ \E i \in 1..Len(log') :
                  log'[i].by = t.msg.mid /\ IsRepost(log'[i]) /\ log'[i].result = "ok" )
          => LET calls == CallsBy(log', t.msg.mid)
             IN /\ Len(calls) = Len(DeletionsOwed(t)) + 1
                /\ IsRepost(calls[1])
                /\ \A i \in 1..Len(DeletionsOwed(t)) :
                      /\ IsDelete(calls[i + 1])
                      /\ calls[i + 1].call.message_id = DeletionsOwed(t)[i]
                      /\ calls[i + 1].call.chat_id = t.msg.chat
                      /\ calls[i + 1].result \in {"ok", "failed"}
                /\ Key(t.msg) \in DOMAIN groups' => groups'[Key(t.msg)] # <<>> ]_vars

\* A handler is over after its repost succeeded, the deletion of the first
\* of two source messages failed and the later deletions were still issued.
C12_Witness ==
    /\ tasks = {}
    /\ Len(log) = 4
    /\ IsRepost(log[1]) /\ log[1].result = "ok"
    /\ IsDelete(log[2]) /\ log[2].result = "failed"
    /\ IsDelete(log[3]) /\ log[3].result = "ok"
    /\ IsDelete(log[4]) /\ log[4].result = "failed"

\* The conversation and sub-topic an event belongs to.
ConversationKey(m) == <<m.chat, m.thread>>

\* The step leaves the registration and the queue of every key but k alone.
OthersUntouched(k) ==
    \A o \in Keys \ {k} :
        /\ (o \in DOMAIN groups') = (o \in DOMAIN groups)
        /\ QueueOf(groups', o) = QueueOf(groups, o)

\* The calls the step issues touch no photo queued under a key other than k.
NoCallForOthers(k) ==
    \A i \in Len(log) + 1 .. Len(log') :
        \A o \in Keys \ {k} :
            \A n \in 1..Len(QueueOf(groups, o)) :
                /\ Reposted(log'[i]) \cap Elems(QueueOf(groups, o)[n].file_ids) = {}
                /\ Deleted(log'[i]) \cap Elems(QueueOf(groups, o)[n].message_ids) = {}

\* C13: handling a photo or a document of key k, up to the last transport
\* call of the document's handler, leaves the queue of every other key
\* unchanged and reposts or deletes no photo queued under another key; keys of
\* one chat that differ in the thread are different keys.
C13_OtherKeysUntouched ==
    [][ /\ (Dispatched("photo") \/ Dispatched("document")) =>
              /\ OthersUntouched(ConversationKey(ev'))
              /\ NoCallForOthers(ConversationKey(ev'))
        /\ \A t \in tasks \ tasks' :
              /\ OthersUntouched(ConversationKey(t.msg))
              /\ NoCallForOthers(ConversationKey(t.msg)) ]_vars

\* A document of sub-topic t7 has been matched and its batch reposted while a
\* batch of the same chat without sub-topic is still queued.
C13_Witness ==
    /\ QueueOf(groups, <<"c1", None>>) # <<>>
    /\ \E i \in 1..Len(log) :
          /\ IsRepost(log[i])
          /\ log[i].call.chat_id = "c1"
          /\ log[i].call.message_thread_id = "t7"
          /\ log[i].result = "ok"

\* C14: in every reachable state, also while a document handler is suspended
\* after dequeuing the last batch and after a handler whose repost failed, no
\* key is registered with an empty queue.
C14_NoEmptyQueueRegistered == \A k \in DOMAIN groups : groups[k] # <<>>

\* C15 as stated: any two adjacent batches of a queue have strictly
\* increasing created_at and strictly increasing first message ids.
C15_AsStated ==
    \A k \in DOMAIN groups :
        \A i \in 1..(Len(groups[k]) - 1) :
            /\ groups[k][i].created_at < groups[k][i + 1].created_at
            /\ groups[k][i].message_ids[1] < groups[k][i + 1].message_ids[1]

\* C15: in every reachable state, of any two adjacent batches of a queue the
\* later one has a created_at that is not smaller, and a different first
\* message id.
C15_QueueInArrivalOrder ==
    \A k \in DOMAIN groups :
        \A i \in 1..(Len(groups[k]) - 1) :
            /\ groups[k][i].created_at <= groups[k][i + 1].created_at
            /\ groups[k][i].message_ids[1] # groups[k][i + 1].message_ids[1]

\* A queue holds two batches made at one clock reading after the clock moved,
\* behind a batch made before.
C15_Witness ==
    \E k \in DOMAIN groups :
        /\ Len(groups[k]) = 3
        /\ groups[k][1].created_at < groups[k][2].created_at
        /\ groups[k][2].created_at = groups[k][3].created_at

\* The step ran the eviction for the key of its event: a photo that was
\* queued, or a document that came as far as its queue.
Evicting ==
    \/ Dispatched("photo") /\ ret' = "queued"
    \/ Dispatched("document") /\ ret' \in {"expired", "not_before", "matched"}

\* Batch c is batch b, or b with photos appended.
SameBatch(b, c) ==
    /\ c.created_at = b.created_at
    /\ c.media_group_id = b.media_group_id
    /\ c.message_ids[1] = b.message_ids[1]

\* C16: right after the eviction has run for a key at time now, no batch of
\* that key's queue, at the front or behind it, is older than the TTL, and
\* every batch whose age was at most the TTL is still queued unless the same
\* step matched it.
C16_EvictionComplete ==
    [][ Evicting =>
          LET k == ConversationKey(ev')
          IN /\ \A c \in Elems(QueueOf(groups', k)) : clock - c.created_at <= PHOTO_TTL
             /\ \A b \in Elems(QueueOf(groups, k)) :
                   clock - b.created_at <= PHOTO_TTL =>
                       \/ \E c \in Elems(QueueOf(groups', k)) : SameBatch(b, c)
                       \/ \E t \in tasks' \ tasks : t.group = b ]_vars

\* The eviction has run at the reading PHOTO_TTL for a photo that started a
\* batch, and the batch made at reading 0 is still at the front.
C16_Witness ==
    \E k \in DOMAIN groups :
        /\ clock = PHOTO_TTL
        /\ Len(groups[k]) >= 2
        /\ groups[k][1].created_at = 0
        /\ Last(groups[k]).created_at = PHOTO_TTL

\* The file ids a repost carries, in the order of the call.
RepostedInOrder(entry) ==
    IF entry.call.op = "send_photo" THEN <<entry.call.photo>>
    ELSE [i \in 1..Len(entry.call.media) |-> entry.call.media[i].media]

\* A photo is dispatched while a document handler of its key is suspended
\* holding a dequeued batch t.group of the photo's media group.
ArrivesDuringMatch(t) ==
    /\ Dispatched("photo")
    /\ ret' = "queued"
    /\ ConversationKey(t.msg) = ConversationKey(ev')
    /\ ev'.media_group_id \notin {None, ""}
    /\ t.group.media_group_id = ev'.media_group_id

\* C17 as stated: a photo of the media group of a dequeued batch that is
\* handled while the document handler is suspended starts a new batch, or
\* joins one started since the dequeue (messages arrive in id order: one
\* whose first message is later than the document).
C17_AsStated ==
    [][ \A t \in tasks :
          ArrivesDuringMatch(t) =>
              LET tail == Last(QueueOf(groups', ConversationKey(ev')))
              IN /\ ev'.mid \in Elems(tail.message_ids)
                 /\ tail.message_ids[1] > t.msg.mid ]_vars

\* C17: a dequeued batch never changes. The repost carries the file ids the
\* front batch had when it was dequeued; the handler holds that batch
\* unchanged through every later step; a photo of its media group handled
\* while the handler is suspended joins the queue (the tail batch if that one
\* has the group id, a new batch otherwise) and not the dequeued batch; and
\* the deletions are those of the batch's message ids as dequeued, in order,
\* then the document's.
C17_DequeuedBatchFrozen ==
    [][ /\ \A u \in tasks' :
              (\A t \in tasks : t.msg # u.msg) =>
                  /\ u.group = Surviving(QueueOf(groups, ConversationKey(u.msg)), clock)[1]
                  /\ RepostedInOrder(log'[Len(log')]) = u.group.file_ids
                  /\ log'[Len(log')].by = u.msg.mid
        /\ \A t \in tasks :
              /\ \A u \in tasks' : u.msg = t.msg => u.group = t.group
              /\ ArrivesDuringMatch(t) =>
                    LET before == QueueOf(groups, ConversationKey(ev'))
                        after == QueueOf(groups', ConversationKey(ev'))
                    IN /\ ev'.mid \notin Elems(t.group.message_ids)
                       /\ ev'.file_id \notin Elems(t.group.file_ids)
                       /\ ev'.mid \in Elems(Last(after).message_ids)
                       /\ IF before # <<>> /\ Last(before).media_group_id = ev'.media_group_id
                          THEN Len(after) = Len(before)
                          ELSE Len(after) = Len(before) + 1
              /\ LET calls == CallsBy(log', t.msg.mid)
                 IN \A j \in 2..Len(calls) :
                       /\ IsDelete(calls[j])
                       /\ j - 1 <= Len(DeletionsOwed(t))
                       /\ calls[j].call.message_id = DeletionsOwed(t)[j - 1] ]_vars

\* A photo of a media group has just joined the tail batch of the queue, a
\* batch queued before the document, while the handler that dequeued an
\* earlier batch of that media group is suspended on a deletion of it.
C17_Witness ==
    \E t \in tasks :
        /\ t.pc = "delete_photo"
        /\ ev.type = "photo"
        /\ ev.media_group_id = t.group.media_group_id
        /\ ev.mid \notin Elems(t.group.message_ids)
        /\ QueueOf(groups, ConversationKey(ev)) # <<>>
        /\ Len(Last(QueueOf(groups, ConversationKey(ev))).message_ids) = 2
        /\ Last(QueueOf(groups, ConversationKey(ev))).message_ids[1] < t.msg.mid
        /\ Last(Last(QueueOf(groups, ConversationKey(ev))).message_ids) = ev.mid

\* C18: whatever the interleaving of the document handlers of a key, no two
\* reposts carry the same photo: two documents never repost one batch.
C18_RepostedAtMostOnce ==
    \A i, j \in 1..Len(log) :
        (i # j /\ IsRepost(log[i]) /\ IsRepost(log[j])) =>
            /\ Reposted(log[i]) \cap Reposted(log[j]) = {}
            /\ log[i].by # log[j].by

\* Two document handlers of one key are suspended on their reposts at once.
C18_Witness ==
    \E t, u \in tasks :
        /\ t.msg # u.msg
        /\ ConversationKey(t.msg) = ConversationKey(u.msg)
        /\ t.pc = "send" /\ u.pc = "send"
        /\ log[t.call].result = "pending" /\ log[u.call].result = "pending"

\* C19: a step of a suspended document handler, its last one included, takes
\* no batch out of any queue and deregisters no key whose queue holds a batch:
\* a batch queued while the handler was suspended stays queued and registered
\* when the handler is over.
C19_AppendedBatchKept ==
    [][ \A t \in tasks :
          t \notin tasks' =>
              \A k \in Keys :
                  /\ QueueOf(groups', k) = QueueOf(groups, k)
                  /\ QueueOf(groups, k) # <<>> => k \in DOMAIN groups' ]_vars

\* A document handler is suspended on its last call, the deletion of the
\* document, while its key's queue holds a batch whose photos all arrived
\* after the document.
C19_Witness ==
    \E t \in tasks :
        /\ t.pc = "delete_archive"
        /\ QueueOf(groups, ConversationKey(t.msg)) # <<>>
        /\ \A n \in 1..Len(QueueOf(groups, ConversationKey(t.msg))) :
              QueueOf(groups, ConversationKey(t.msg))[n].message_ids[1] > t.msg.mid

\* The photo of the step is the last one of the tail batch of its key's queue.
HeldInTail ==
    LET after == QueueOf(groups', ConversationKey(ev'))
    IN /\ after # <<>>
       /\ Last(Last(after).message_ids) = ev'.mid
       /\ Last(Last(after).file_ids) = ev'.file_id

\* The photo of the step has the group id of a tail batch that has outlived
\* the TTL.
JoinsExpiredTail ==
    LET before == QueueOf(groups, ConversationKey(ev'))
    IN /\ before # <<>>
       /\ ev'.media_group_id \notin {None, ""}
       /\ Last(before).media_group_id = ev'.media_group_id
       /\ Expired(Last(before), clock)

\* C20 as stated: after an authorized photo has been handled, its file id and
\* message id are in the tail batch of its key's queue.
C20_AsStated ==
    [][ (Dispatched("photo") /\ Authorized(ev')) => HeldInTail ]_vars

\* C20: after an authorized photo has been handled, its file id and message
\* id are the last ones of the tail batch of its key's queue, unless it had
\* the group id of a tail batch older than the TTL: then the eviction of the
\* same handler drops that batch with the photo, and the queue with it.
C20_HeldUnlessTailExpired ==
    [][ (Dispatched("photo") /\ Authorized(ev')) =>
            IF JoinsExpiredTail
            THEN ConversationKey(ev') \notin DOMAIN groups'
            ELSE HeldInTail ]_vars

\* The second photo of a media group has just been handled more than the TTL
\* after the first and the key has no queue any more.
C20_Witness ==
    \E k \in Keys :
        /\ ev.type = "photo"
        /\ ConversationKey(ev) = k
        /\ run[k].n = 2
        /\ Last(run[k].message_ids) = ev.mid
        /\ clock - run[k].at > PHOTO_TTL
        /\ k \notin DOMAIN groups
====
